---- MODULE Spec2Model ----
(***************************************************************************)
(* Account pool of the amq2api gateway: round-robin selection with         *)
(* per-minute rate admission, and the time-windowed health state machine   *)
(* with auto-recovery (app/core/account_pool.py), together with the        *)
(* per-request use of the pool by the orchestrator (app_new.py).           *)
(*                                                                         *)
(* Time is counted in whole minutes.  An account row is a record; a        *)
(* nullable DateTime/Text column holds NULL when it is None.               *)
(*                                                                         *)
(* The columns error_count, first_error_time, last_error_time and          *)
(* auto_recover_at are read and written by account_pool.py and exposed by  *)
(* app/api/admin.py (AccountResponse) but are not declared on the Account  *)
(* class of app/models/database.py; they are modelled here as ordinary     *)
(* nullable columns with the defaults AccountResponse gives them.          *)
(***************************************************************************)
EXTENDS Integers, Sequences, FiniteSets, TLC

\* ---------------------------------------------------------------- bounds
NumAccounts == 2
NumRequests == 3
MaxTime == 31
MaxCalls == 4
MaxPoolCalls == 2
MaxErrors == 5
MaxMsgs == 3
MaxParts == 2
MaxEvents == 3
MaxKeyLimit == 2
RpmCeiling == 1

\* ------------------------------------------------------ program constants
NULL == -1
RpmWindow == 1
ErrorWindow == 10
ErrorThreshold == 5
RecoverDelay == 30
SafetyMargin == 5
DefaultLifetime == 60
TtlSlack == 5

Ids == 1..NumAccounts
\* the accounts whose token exchange or upstream dispatch is reported on
FaultyIds == {1}
\* the instants at which the clock is observed: the start, the end of a rate
\* window, of an error window and of a recovery delay, and the minute after
TimePoints ==
  { 0, RpmWindow, ErrorWindow, ErrorWindow + 1, RecoverDelay, RecoverDelay + 1 }
    \cap 0..MaxTime
\* those among them that the health state machine tells apart
HealthPoints ==
  { 0, ErrorWindow, ErrorWindow + 1, RecoverDelay } \cap 0..MaxTime

\* accounts: the rows of table accounts;  cursor: _current_index;  now: the
\* clock.  last records the operation that produced the state (its name, the
\* account it returned or acted on, 0 for none, and what it did there), and
\* steady whether every selection so far found all accounts usable and none
\* rate limited, returned the account the latest selection returned (0 before
\* the first).
\*
\* The orchestrator's requests: pc is the suspension point a request is at,
\* sel the account get_next_account returned to it (0 for None), sess the row
\* its database session holds for that account and loaded whether that row is
\* loaded (a commit expires it).  reported counts the failure reports issued
\* for an account, mode is the handler that serves the request and answer the
\* status the caller has been given ("none" before there is one).
\*
\* The translator (app/core/openai_converter.py): oai is the value handed to
\* it, an OpenAI request or a message content, and cres holds what it
\* returned, once it has.
\*
\* The response path: events are the canonical upstream events of one request,
\* fed how many of them have been handled, frames what has been written to the
\* caller so far, resp the aggregated response once it is built, and style who
\* handles them (the re-framer called event by event, or one of the endpoints).
\*
\* The token cache (app/core/redis_cache.py): redis is _redis_available, and
\* cache the expires_at of the entry stored under token:account:<id>, NULL
\* when there is none.
\*
\* API keys (app/core/api_keys.py): apikey is the row of table api_keys for the
\* key the callers present.
VARIABLES accounts, cursor, now, last, steady, returned, pc, sel, sess, loaded, reported,
          redis, cache, mode, answer, oai, cres,
          events, fed, frames, resp, style, apikey
poolVars == <<accounts, cursor, now, last, steady, returned>>
reqVars == <<pc, sel, sess, loaded, reported, mode, answer>>
cacheVars == <<redis, cache>>
frameVars == <<events, fed, frames, resp, style>>
convVars == <<oai, cres, frameVars, apikey>>
vars == <<accounts, cursor, now, last, steady, returned, pc, sel, sess, loaded, reported,
          redis, cache, mode, answer, oai, cres, events, fed, frames, resp, style, apikey>>

Reqs == 1..NumRequests

Op(op, acct, note) == [op |-> op, acct |-> acct, note |-> note]

\* ------------------------------------------------------------ Account row
NewAccount ==
  [ is_active |-> TRUE, is_healthy |-> TRUE,
    health_check_error |-> "NULL",
    total_requests |-> 0, last_used |-> NULL,
    requests_per_minute |-> RpmCeiling, current_rpm |-> 0, rpm_reset_at |-> NULL,
    error_count |-> 0, first_error_time |-> NULL, last_error_time |-> NULL,
    auto_recover_at |-> NULL ]

\* ------------------------------------------- _check_and_auto_recover_accounts
NeedsRecoverLate(acc, t) ==
  /\ ~acc.is_healthy
  /\ acc.auto_recover_at # NULL
  /\ acc.auto_recover_at < t

NeedsRecover(acc, t) ==
  /\ ~acc.is_healthy
  /\ acc.auto_recover_at # NULL
  /\ acc.auto_recover_at <= t

Recovered(acc) ==
  [acc EXCEPT !.is_healthy = TRUE, !.error_count = 0,
              !.first_error_time = NULL, !.last_error_time = NULL,
              !.health_check_error = "NULL", !.auto_recover_at = NULL]

CheckAndAutoRecover(accts, t) ==
  [a \in Ids |-> IF NeedsRecover(accts[a], t) THEN Recovered(accts[a]) ELSE accts[a]]

\* ------------------------------------------------------- get_next_account
IsCandidateActiveOnly(acc) == acc.is_active

IsCandidate(acc) == acc.is_active /\ acc.is_healthy

\* the query of lines 32-37: active and healthy accounts ordered by id
Candidates(accts) ==
  SelectSeq([i \in 1..NumAccounts |-> i], LAMBDA a : IsCandidate(accts[a]))

IsRateLimitedOffByOne(acc, t) ==
  /\ acc.rpm_reset_at # NULL
  /\ t < acc.rpm_reset_at
  /\ acc.current_rpm > acc.requests_per_minute

IsRateLimited(acc, t) ==
  /\ acc.rpm_reset_at # NULL
  /\ t < acc.rpm_reset_at
  /\ acc.current_rpm >= acc.requests_per_minute

\* line 46-47: an index beyond the candidate list restarts at 0
StartIndex(cur, k) == IF cur >= k THEN 0 ELSE cur

\* offsets i of the scan of lines 53-66 whose candidate is not rate limited
FreeOffsets(accts, cands, start, t) ==
  { i \in 0..(Len(cands) - 1) :
      ~IsRateLimited(accts[cands[((start + i) % Len(cands)) + 1]], t) }

Min(S) == CHOOSE x \in S : \A y \in S : x <= y

ChosenIndexFallbackFirst(accts, cands, start, t) ==
  LET free == FreeOffsets(accts, cands, start, t)
  IN  IF free = {} THEN 0
      ELSE (start + Min(free)) % Len(cands)

\* the index chosen: first not rate limited from start, else start itself
ChosenIndex(accts, cands, start, t) ==
  LET free == FreeOffsets(accts, cands, start, t)
  IN  IF free = {} THEN start
      ELSE (start + Min(free)) % Len(cands)

\* lines 74-82: reset the counter when the window is over, then count
UseAccount(acc, t) ==
  LET fresh == IF acc.rpm_reset_at = NULL \/ t >= acc.rpm_reset_at
               THEN [acc EXCEPT !.current_rpm = 0, !.rpm_reset_at = t + RpmWindow]
               ELSE acc
  IN  [fresh EXCEPT !.current_rpm = @ + 1, !.total_requests = @ + 1, !.last_used = t]

NextCursorStuck(idx, k) == idx % k

\* lines 65 and 71: the cursor moves just past the chosen index
NextCursor(idx, k) == (idx + 1) % k

\* how the scan of lines 53-72 ended: at the cursor position, past rate
\* limited candidates, or with the warning of line 72 (all rate limited)
ScanOutcome(accts, cands, start, t) ==
  LET free == FreeOffsets(accts, cands, start, t)
  IN  IF free = {} THEN "fallback"
      ELSE IF Min(free) = 0 THEN "first" ELSE "skipped"

ExhaustedResetsCursor(swept, cur) ==
  [accts |-> swept, cursor |-> 0, ret |-> 0, scan |-> "none"]

\* lines 39-41: no candidate, None is returned and nothing else is touched
Exhausted(swept, cur) ==
  [accts |-> swept, cursor |-> cur, ret |-> 0, scan |-> "none"]

\* the whole of get_next_account on rows accts with cursor cur at time t:
\* the rows and cursor it leaves and the id it returns (0 for None)
GetNext(accts, cur, t) ==
  LET swept == CheckAndAutoRecover(accts, t)
      cands == Candidates(swept)
      k     == Len(cands)
  IN  IF k = 0
      THEN Exhausted(swept, cur)
      ELSE LET start == StartIndex(cur, k)
               idx   == ChosenIndex(swept, cands, start, t)
               chosen == cands[idx + 1]
           IN  [accts  |-> [swept EXCEPT ![chosen] = UseAccount(swept[chosen], t)],
                cursor |-> NextCursor(idx, k),
                ret    |-> chosen,
                scan   |-> ScanOutcome(swept, cands, start, t)]

TotalCalls(accts) ==
  LET RECURSIVE Sum(_)
      Sum(n) == IF n = 0 THEN 0 ELSE accts[n].total_requests + Sum(n - 1)
  IN  Sum(NumAccounts)

\* what the properties below say of a row: usable (active and healthy), at its
\* ceiling inside its minute, and free of any trace of an error
Usable(acc) == acc.is_active /\ acc.is_healthy

AtCeiling(acc, t) ==
  /\ acc.rpm_reset_at # NULL
  /\ t < acc.rpm_reset_at
  /\ acc.current_rpm >= acc.requests_per_minute

ErrorFree(acc) ==
  /\ acc.is_healthy
  /\ acc.error_count = 0
  /\ acc.first_error_time = NULL
  /\ acc.last_error_time = NULL
  /\ acc.health_check_error = "NULL"
  /\ acc.auto_recover_at = NULL

\* a selection that finds every account usable and none at its ceiling
AllFree(accts, t) == \A a \in Ids : Usable(accts[a]) /\ ~AtCeiling(accts[a], t)

GetNextAccount ==
  /\ LET r == GetNext(accounts, cursor, now)
         swept == CheckAndAutoRecover(accounts, now)
     IN  /\ accounts' = r.accts
         /\ cursor' = r.cursor
         /\ last' = Op("select", r.ret,
                       IF \E a \in Ids : swept[a] # accounts[a] THEN "recovered"
                       ELSE r.scan)
         /\ steady' = (steady /\ AllFree(swept, now))
         /\ returned' = IF r.ret = 0 THEN returned ELSE r.ret
  /\ UNCHANGED <<now, reqVars, cacheVars, convVars>>

\* ------------------------------------------------------ _cleanup_old_errors
CleanupOldErrors(acc, t) ==
  IF acc.first_error_time = NULL THEN acc
  ELSE IF acc.first_error_time < t - ErrorWindow
       THEN [acc EXCEPT !.error_count = 0, !.first_error_time = NULL,
                        !.last_error_time = NULL]
       ELSE acc

\* ----------------------------------------------------- update_health_status
ClearErrorsOnly(acc) ==
  [acc EXCEPT !.error_count = 0, !.first_error_time = NULL,
              !.last_error_time = NULL, !.health_check_error = "NULL",
              !.auto_recover_at = NULL]

\* lines 207-217: a success clears the error state when errors are counted
ClearErrors(acc) ==
  [acc EXCEPT !.error_count = 0, !.first_error_time = NULL,
              !.last_error_time = NULL, !.health_check_error = "NULL",
              !.auto_recover_at = NULL, !.is_healthy = TRUE]

SuccessRow(acc) == IF acc.error_count > 0 THEN ClearErrors(acc) ELSE acc

CountErrorWindowClosed(acc, t) ==
  IF acc.first_error_time = NULL \/ acc.first_error_time <= t - ErrorWindow
  THEN [acc EXCEPT !.first_error_time = t, !.error_count = 1]
  ELSE [acc EXCEPT !.error_count = @ + 1]

\* lines 226-231: the first error of a window starts the count at 1
CountError(acc, t) ==
  IF acc.first_error_time = NULL \/ acc.first_error_time < t - ErrorWindow
  THEN [acc EXCEPT !.first_error_time = t, !.error_count = 1]
  ELSE [acc EXCEPT !.error_count = @ + 1]

ApplyThresholdAbove(acc, t) ==
  IF acc.error_count > ErrorThreshold
  THEN IF acc.is_healthy
       THEN [acc EXCEPT !.is_healthy = FALSE, !.auto_recover_at = t + RecoverDelay]
       ELSE IF acc.auto_recover_at = NULL \/ acc.auto_recover_at < t
            THEN [acc EXCEPT !.auto_recover_at = t + RecoverDelay]
            ELSE acc
  ELSE acc

ApplyThresholdNoDeadline(acc, t) ==
  IF acc.error_count >= ErrorThreshold
  THEN [acc EXCEPT !.is_healthy = FALSE]
  ELSE acc

\* lines 237-249: the threshold marks the account unhealthy for RecoverDelay
ApplyThreshold(acc, t) ==
  IF acc.error_count >= ErrorThreshold
  THEN IF acc.is_healthy
       THEN [acc EXCEPT !.is_healthy = FALSE, !.auto_recover_at = t + RecoverDelay]
       ELSE IF acc.auto_recover_at = NULL \/ acc.auto_recover_at < t
            THEN [acc EXCEPT !.auto_recover_at = t + RecoverDelay]
            ELSE acc
  ELSE acc

FailureRow(acc, msg, t) ==
  LET counted == CountError(CleanupOldErrors(acc, t), t)
      stamped == [counted EXCEPT !.last_error_time = t, !.health_check_error = msg]
  IN  ApplyThreshold(stamped, t)

\* update_health_status applied to the row it is handed
UpdateHealthStatus(acc, is_healthy, msg, t) ==
  IF is_healthy THEN SuccessRow(acc) ELSE FailureRow(acc, msg, t)

\* ----------------------------------------------------------- record_success
RecordSuccessRow(acc) == IF acc.error_count > 0 THEN ClearErrors(acc) ELSE acc

\* ---------------------------------------------------------- pool operations
ReportFailure(a) ==
  /\ FailureRow(accounts[a], "error", now).error_count <= MaxErrors
  /\ accounts' = [accounts EXCEPT ![a] = UpdateHealthStatus(@, FALSE, "error", now)]
  /\ last' = Op("fail", a, "-")
  /\ UNCHANGED <<cursor, now, steady, returned, reqVars, cacheVars, convVars>>

ReportSuccess(a) ==
  /\ accounts' = [accounts EXCEPT ![a] = UpdateHealthStatus(@, TRUE, "NULL", now)]
  /\ last' = Op("success", a, IF accounts[a].is_healthy THEN "-" ELSE "healed")
  /\ UNCHANGED <<cursor, now, steady, returned, reqVars, cacheVars, convVars>>

RecordSuccess(a) ==
  /\ accounts' = [accounts EXCEPT ![a] = RecordSuccessRow(@)]
  /\ last' = Op("record", a, IF accounts[a].is_healthy THEN "-" ELSE "healed")
  /\ UNCHANGED <<cursor, now, steady, returned, reqVars, cacheVars, convVars>>

\* update_account(is_active=v): the administrative switch
SetActive(a, v) ==
  /\ accounts[a].is_active # v
  /\ accounts' = [accounts EXCEPT ![a].is_active = v]
  /\ last' = Op("admin", a, "-")
  /\ UNCHANGED <<cursor, now, steady, returned, reqVars, cacheVars, convVars>>

\* ------------------------------------------------------------ token cache
\* the instants the cache tells apart for a token of the default lifetime taken
\* at 0: before the safety margin, inside it, at expiry, and when the key's
\* time to live is over
CachePoints ==
  { 0, DefaultLifetime - SafetyMargin - 1, DefaultLifetime - SafetyMargin,
    DefaultLifetime - 1, DefaultLifetime, DefaultLifetime + TtlSlack }

\* init_redis: the connection is made and the ping answers, or not
InitRedis(ok) ==
  /\ redis' = ok
  /\ last' = Op("init_redis", 0, "-")
  /\ UNCHANGED <<accounts, cursor, now, steady, returned, reqVars, cache, convVars>>

\* setex (redis_cache.py line 115-117): the key lives TtlSlack beyond expires_at
KeyStored(c, a, t) == c[a] # NULL /\ t < c[a] + TtlSlack

\* get_token_cache on cache c at time t: whether an entry is returned, and the
\* cache it leaves (an entry found expired is deleted)
CacheLookup(c, a, t) ==
  IF ~redis THEN [hit |-> FALSE, cache |-> c]
  ELSE IF KeyStored(c, a, t) /\ t < c[a] THEN [hit |-> TRUE, cache |-> c]
  ELSE [hit |-> FALSE, cache |-> [c EXCEPT ![a] = NULL]]

GetTokenCache(a) ==
  /\ LET look == CacheLookup(cache, a, now)
     IN  /\ cache' = look.cache
         /\ last' = Op("get_token_cache", a, IF look.hit THEN "hit" ELSE "miss")
  /\ UNCHANGED <<accounts, cursor, now, steady, returned, reqVars, redis, convVars>>

SetTokenCache(c, a, expires_at) ==
  IF redis THEN [c EXCEPT ![a] = expires_at] ELSE c

DeleteTokenCache(a) ==
  /\ cache' = IF redis THEN [cache EXCEPT ![a] = NULL] ELSE cache
  /\ last' = Op("delete_token_cache", a, "-")
  /\ UNCHANGED <<accounts, cursor, now, steady, returned, reqVars, redis, convVars>>

\* refresh_token_for_account (auth.py) for account a, called with account_id
\* (with_id) or without, the token endpoint answering (ok) or not.  With a
\* cache entry found, line 51 reads timedelta, a local name of the function
\* that is bound only at line 112: the call ends in UnboundLocalError.
RefreshOutcome(c, a, with_id, ok, t) ==
  LET look == IF with_id THEN CacheLookup(c, a, t)
              ELSE [hit |-> FALSE, cache |-> c]
  IN  IF look.hit THEN [result |-> "unbound", cache |-> look.cache]
      ELSE IF ok
           THEN [result |-> "exchanged",
                 cache  |-> IF with_id
                            THEN SetTokenCache(look.cache, a, t + DefaultLifetime)
                            ELSE look.cache]
           ELSE [result |-> "failed", cache |-> look.cache]

RefreshTokenForAccount(a, with_id, ok) ==
  /\ LET out == RefreshOutcome(cache, a, with_id, ok, now)
     IN  /\ cache' = out.cache
         /\ last' = Op(IF with_id THEN "refresh_id" ELSE "refresh", a, out.result)
  /\ UNCHANGED <<accounts, cursor, now, steady, returned, reqVars, redis, convVars>>

\* ------------------------------------------------- background token sweep
\* app_new.py line 97: a cached token is renewed this long before it expires
SweepMargin == 5

SweepAccountUnrecorded(st, a, ok, t) ==
  LET look    == CacheLookup(st.cache, a, t)
      should  == ~look.hit \/ t >= look.cache[a] - SweepMargin
      cleared == IF redis THEN [look.cache EXCEPT ![a] = NULL] ELSE look.cache
      out     == RefreshOutcome(cleared, a, TRUE, ok, t)
  IN  IF ~should THEN [accts |-> st.accts, cache |-> look.cache]
      ELSE [accts |-> IF out.result = "exchanged"
                      THEN [st.accts EXCEPT ![a] = UpdateHealthStatus(@, TRUE, "NULL", t)]
                      ELSE st.accts,
            cache |-> out.cache]

\* the body of the loop of auto_refresh_tokens_task for one account (lines
\* 82-123): the cache is read; with no entry, or one within SweepMargin of its
\* expiry, the entry is deleted and the token exchanged with account_id; the
\* outcome is written to the account's health, an exception staying inside
\* the account's own try
SweepAccount(st, a, ok, t) ==
  LET look    == CacheLookup(st.cache, a, t)
      should  == ~look.hit \/ t >= look.cache[a] - SweepMargin
      cleared == IF redis THEN [look.cache EXCEPT ![a] = NULL] ELSE look.cache
      out     == RefreshOutcome(cleared, a, TRUE, ok, t)
  IN  IF ~should THEN [accts |-> st.accts, cache |-> look.cache]
      ELSE [accts |-> [st.accts EXCEPT ![a] =
                         IF out.result = "exchanged"
                         THEN UpdateHealthStatus(@, TRUE, "NULL", t)
                         ELSE UpdateHealthStatus(@, FALSE, "auto_refresh", t)],
            cache |-> out.cache]

\* the instants a pass tells apart for a token of the default lifetime taken at
\* 0: before the margin, at its start, and at expiry
SweepPoints ==
  { 0, DefaultLifetime - SweepMargin - 1, DefaultLifetime - SweepMargin,
    DefaultLifetime }

\* list_accounts(db, active_only=True) (account_pool.py lines 142-147)
ListActive(accts) == { a \in Ids : accts[a].is_active }

\* the for loop of line 81 over the listed accounts, in the order of their ids
RECURSIVE SweepFrom(_, _, _, _, _)
SweepFrom(st, a, listed, oks, t) ==
  IF a > NumAccounts THEN st
  ELSE SweepFrom(IF a \in listed THEN SweepAccount(st, a, oks[a], t) ELSE st,
                 a + 1, listed, oks, t)

\* one pass of auto_refresh_tokens_task, the token endpoint answering each
\* account's exchange (oks[a]) or, for the accounts of FaultyIds, not
AutoRefreshTokens ==
  \E oks \in { f \in [Ids -> BOOLEAN] : \A a \in Ids \ FaultyIds : f[a] } :
    LET st == SweepFrom([accts |-> accounts, cache |-> cache], 1,
                        ListActive(accounts), oks, now)
    IN  /\ \A a \in Ids : st.accts[a].error_count <= MaxErrors
        /\ accounts' = st.accts
        /\ cache' = st.cache
        /\ last' = Op("sweep", 0, "-")
        /\ UNCHANGED <<cursor, now, steady, returned, reqVars, redis, convVars>>

\* ------------------------------------------------------ app/core/api_keys
\* lines 75 and 84: the windows of the two ceilings of a key, in minutes
KeyMinute == 1
KeyDay == 1440

\* the ceilings and lifetimes (in days, NULL for none) keys are created with
KeyLimits == 0..MaxKeyLimit
KeyLifetimes == { NULL, 1 }

\* the instants the key's windows tell apart: inside the first minute, at its
\* end, and at and after the end of the first day
KeyPoints == { 0, KeyMinute, KeyMinute + 1, KeyDay, KeyDay + 1 }

\* no row of api_keys with the key presented
NoKey ==
  [ exists |-> FALSE, is_active |-> FALSE, expires_at |-> NULL,
    requests_per_minute |-> 0, requests_per_day |-> 0,
    current_rpm |-> 0, current_rpd |-> 0,
    rpm_reset_at |-> NULL, rpd_reset_at |-> NULL,
    total_requests |-> 0, last_used |-> NULL ]

\* create_key (lines 24-45) and the column defaults of ApiKey
NewKey(rpm, rpd, expires_days, t) ==
  [ NoKey EXCEPT !.exists = TRUE, !.is_active = TRUE,
                 !.expires_at = IF expires_days = NULL THEN NULL
                                ELSE t + expires_days * KeyDay,
                 !.requests_per_minute = rpm, !.requests_per_day = rpd ]

\* validate_key (lines 47-93) on the stored row k at time t: whether the key
\* is returned, and the row stored afterwards.  A call that returns None
\* commits nothing: the session of verify_api_key is closed with its changes.
ValidateKeyRow(k, t) ==
  LET reject   == [ok |-> FALSE, row |-> k]
      inMinute == k.rpm_reset_at # NULL /\ t < k.rpm_reset_at
      k1       == IF inMinute THEN k
                  ELSE [k EXCEPT !.current_rpm = 0, !.rpm_reset_at = t + KeyMinute]
      inDay    == k1.rpd_reset_at # NULL /\ t < k1.rpd_reset_at
      k2       == IF inDay THEN k1
                  ELSE [k1 EXCEPT !.current_rpd = 0, !.rpd_reset_at = t + KeyDay]
  IN  IF ~k.exists \/ ~k.is_active THEN reject
      ELSE IF k.expires_at # NULL /\ t > k.expires_at THEN reject
      ELSE IF inMinute /\ k.current_rpm >= k.requests_per_minute THEN reject
      ELSE IF inDay /\ k1.current_rpd >= k1.requests_per_day THEN reject
      ELSE [ok  |-> TRUE,
            row |-> [k2 EXCEPT !.current_rpm = @ + 1, !.current_rpd = @ + 1,
                               !.total_requests = @ + 1, !.last_used = t]]

keyFrame == <<accounts, cursor, now, steady, returned, reqVars, cacheVars, oai, cres, frameVars>>

CreateKey(rpm, rpd, expires_days) ==
  /\ ~apikey.exists
  /\ apikey' = NewKey(rpm, rpd, expires_days, now)
  /\ last' = Op("create_key", 0, "-")
  /\ UNCHANGED keyFrame

\* update_key(is_active=v) (lines 106-120); revoke_key is the case v = FALSE
UpdateKey(v) ==
  /\ apikey.exists
  /\ apikey.is_active # v
  /\ apikey' = [apikey EXCEPT !.is_active = v]
  /\ last' = Op("update_key", 0, "-")
  /\ UNCHANGED keyFrame

\* verify_api_key (auth_middleware.py lines 44-79) for a request carrying the key
ValidateKey ==
  /\ LET out == ValidateKeyRow(apikey, now)
     IN  /\ apikey' = out.row
         /\ last' = Op("validate_key", 0, IF out.ok THEN "accepted" ELSE "rejected")
  /\ UNCHANGED keyFrame

\* the endpoints a request comes in by: /v1/messages, and /v1/chat/completions
\* without and with stream = true
Endpoints == { "messages", "chat_completions", "chat_completions_stream" }

\* what the handlers do to the key before the request is served.
\* create_message (line 247) and create_chat_completion (line 700) call
\* verify_api_key; create_chat_completion then hands a non-streaming request
\* to create_message_non_stream, which does not, and a streaming one to
\* create_message (line 748), which calls verify_api_key again on the headers
\* of the same request.  A key turned down is answered 401.
Authenticate(endpoint) ==
  /\ LET first == ValidateKeyRow(apikey, now)
         again == ValidateKeyRow(first.row, now)
         twice == endpoint = "chat_completions_stream" /\ first.ok
     IN  /\ apikey' = IF twice THEN again.row ELSE first.row
         /\ last' = Op(endpoint, 0,
                       IF ~first.ok THEN "401"
                       ELSE IF twice /\ ~again.ok THEN "401 inside"
                       ELSE "admitted")
  /\ UNCHANGED keyFrame

\* ------------------------------------------------- the request's db session
\* app/models/database.py get_db: one Session per request (expire_on_commit).
\* A query for a row the session holds loaded yields the held row, not the
\* stored one; an expired row is read again from the table.
SessionRow(r) == IF loaded[r] THEN sess[r] ELSE accounts[sel[r]]

WriteWholeRow(stored, old, new) == new

\* db.commit(): the UPDATE carries the columns whose value the session changed
MergeChanged(stored, old, new) ==
  [f \in DOMAIN stored |-> IF new[f] # old[f] THEN new[f] ELSE stored[f]]

\* ------------------------------------------- create_message, request by request
\* The two handlers a request is served by: create_message answers with a
\* StreamingResponse (mode "stream"), create_message_non_stream collects the
\* events and answers when the stream is over (mode "non_stream").
Modes == { "stream", "non_stream" }

\* statuses other than 200 the upstream answers a dispatch with
UpstreamErrors == { "429", "502" }

\* request.json() or parse_claude_request raises before any account is chosen:
\* the handler's last except clause answers 500
Malformed(r) ==
  /\ pc[r] = "start"
  /\ pc' = [pc EXCEPT ![r] = "malformed"]
  /\ answer' = [answer EXCEPT ![r] = "500"]
  /\ UNCHANGED <<poolVars, sel, sess, loaded, reported, mode, cacheVars, convVars>>

\* lines 257-265 / 483-491: the selection, made with the request's fresh
\* session; the log line after the commit (account_pool.py line 85) loads the
\* chosen row.  Without an account the request is answered 503.
SelectAs(r, m) ==
  /\ pc[r] = "start"
  /\ mode' = [mode EXCEPT ![r] = m]
  /\ LET res == GetNext(accounts, cursor, now)
     IN  /\ accounts' = res.accts
         /\ cursor' = res.cursor
         /\ sel' = [sel EXCEPT ![r] = res.ret]
         /\ returned' = IF res.ret = 0 THEN returned ELSE res.ret
         /\ IF res.ret = 0
            THEN /\ pc' = [pc EXCEPT ![r] = "rejected"]
                 /\ answer' = [answer EXCEPT ![r] = "503"]
                 /\ UNCHANGED <<sess, loaded>>
            ELSE /\ pc' = [pc EXCEPT ![r] = "token"]
                 /\ sess' = [sess EXCEPT ![r] = res.accts[res.ret]]
                 /\ loaded' = [loaded EXCEPT ![r] = TRUE]
                 /\ UNCHANGED answer
  /\ UNCHANGED <<now, last, steady, reported, cacheVars, convVars>>

SelectFor(r) == SelectAs(r, "stream")

\* update_health_status(db, account.id, False, msg) through the request's session
ReportThroughSession(r, msg) ==
  LET a   == sel[r]
      old == SessionRow(r)
      new == UpdateHealthStatus(old, FALSE, msg, now)
  IN  /\ accounts' = [accounts EXCEPT ![a] = MergeChanged(@, old, new)]
      /\ loaded' = [loaded EXCEPT ![r] = FALSE]
      /\ reported' = [reported EXCEPT ![a] = @ + 1]
      /\ UNCHANGED <<cursor, now, last, steady, returned, sel, sess, mode>>

TokenFailsUnreported(r) ==
  /\ pc[r] = "token"
  /\ pc' = [pc EXCEPT ![r] = "failed"]
  /\ answer' = [answer EXCEPT ![r] = "503"]
  /\ UNCHANGED <<poolVars, sel, sess, loaded, reported, mode, cacheVars, convVars>>

\* lines 306-322 / 532-547: refresh_token_for_account, called without
\* account_id, raises; the failure is reported and the request answered 503
TokenFails(r) ==
  /\ pc[r] = "token"
  /\ LET out == RefreshOutcome(cache, sel[r], FALSE, FALSE, now)
     IN  /\ out.result = "failed"
         /\ cache' = out.cache
  /\ ReportThroughSession(r, "token")
  /\ pc' = [pc EXCEPT ![r] = "failed"]
  /\ answer' = [answer EXCEPT ![r] = "503"]
  /\ UNCHANGED <<redis, convVars>>

\* the same call returns a token (a returned token is never empty, auth.py
\* line 104).  create_message then returns its StreamingResponse, whose status
\* line, 200, goes out before the stream is read.
TokenOk(r) ==
  /\ pc[r] = "token"
  /\ LET out == RefreshOutcome(cache, sel[r], FALSE, TRUE, now)
     IN  /\ out.result = "exchanged"
         /\ cache' = out.cache
  /\ pc' = [pc EXCEPT ![r] = "dispatch"]
  /\ answer' = IF mode[r] = "stream" THEN [answer EXCEPT ![r] = "200"] ELSE answer
  /\ UNCHANGED <<poolVars, sel, sess, loaded, reported, mode, redis, convVars>>

\* handle_amazonq_stream over byte_stream(): an exception raised by the byte
\* stream leaves the decoder as it is
HandleAmazonqStream(raised) == raised

\* how a request leaves a dispatch that raised raised: the streaming handler
\* still runs the finally block of claude_stream under the status line already
\* sent, the other handler passes the HTTPException on to the caller
AfterUpstreamError(r, raised) ==
  IF mode[r] = "stream"
  THEN /\ pc' = [pc EXCEPT ![r] = "aborting"]
       /\ UNCHANGED answer
  ELSE /\ pc' = [pc EXCEPT ![r] = "failed"]
       /\ answer' = [answer EXCEPT ![r] = HandleAmazonqStream(raised)]

\* byte_stream, lines 366-376 / 590-599: the upstream answers with a status
\* other than 200; HTTPException carries that status
UpstreamStatusError(r, st) ==
  /\ pc[r] = "dispatch"
  /\ ReportThroughSession(r, "api")
  /\ AfterUpstreamError(r, st)
  /\ UNCHANGED <<cacheVars, convVars>>

\* byte_stream, lines 383-388 / 605-610: httpx.RequestError becomes a 502
UpstreamRequestError(r) ==
  /\ pc[r] = "dispatch"
  /\ ReportThroughSession(r, "network")
  /\ AfterUpstreamError(r, "502")
  /\ UNCHANGED <<cacheVars, convVars>>

\* status 200 and the stream read to its end
UpstreamOk(r) ==
  /\ pc[r] = "dispatch"
  /\ pc' = [pc EXCEPT ![r] = "streamed"]
  /\ UNCHANGED <<poolVars, sel, sess, loaded, reported, mode, answer, cacheVars, convVars>>

ClientDisconnectReported(r) ==
  /\ pc[r] = "dispatch"
  /\ mode[r] = "stream"
  /\ ReportThroughSession(r, "network")
  /\ pc' = [pc EXCEPT ![r] = "cancelling"]
  /\ UNCHANGED <<answer, cacheVars, convVars>>

\* the client of a streaming request goes away while the stream is read: the
\* generator is cancelled and only its finally block is left to run
ClientDisconnect(r) ==
  /\ pc[r] = "dispatch"
  /\ mode[r] = "stream"
  /\ pc' = [pc EXCEPT ![r] = "cancelling"]
  /\ UNCHANGED <<poolVars, sel, sess, loaded, reported, mode, answer, cacheVars, convVars>>

\* claude_stream, lines 416-445, and create_message_non_stream, lines 647-685:
\* when the stream ends the request's session adds one to total_requests,
\* stamps last_used and commits; the non-streaming handler then answers 200
StreamFinally(r) ==
  /\ pc[r] \in { "streamed", "aborting", "cancelling" }
  /\ LET a   == sel[r]
         old == SessionRow(r)
         new == [old EXCEPT !.total_requests = @ + 1, !.last_used = now]
     IN  accounts' = [accounts EXCEPT ![a] = MergeChanged(@, old, new)]
  /\ loaded' = [loaded EXCEPT ![r] = FALSE]
  /\ pc' = [pc EXCEPT ![r] = CASE pc[r] = "streamed"   -> "done"
                               [] pc[r] = "aborting"   -> "aborted"
                               [] pc[r] = "cancelling" -> "cancelled"]
  /\ answer' = IF pc[r] = "streamed" THEN [answer EXCEPT ![r] = "200"] ELSE answer
  /\ UNCHANGED <<cursor, now, last, steady, returned, sel, sess, reported, mode, cacheVars, convVars>>

\* ------------------------------------------------- app/core/openai_converter
\* A message content is a string, a list of parts or null (None); a URL is
\* kept as its pieces, scheme, media type, encoding marker and the characters
\* that follow, so that the regular expression of line 171 can be applied to it.
Str(s) == [kind |-> "str", text |-> s]
List(parts) == [kind |-> "list", parts |-> parts]
Null == [kind |-> "null"]

Upper == { "A", "B", "C", "D", "E", "F", "G", "H", "I", "J", "K", "L", "M",
           "N", "O", "P", "Q", "R", "S", "T", "U", "V", "W", "X", "Y", "Z" }
Lower == { "a", "b", "c", "d", "e", "f", "g", "h", "i", "j", "k", "l", "m",
           "n", "o", "p", "q", "r", "s", "t", "u", "v", "w", "x", "y", "z" }
Digit == { "0", "1", "2", "3", "4", "5", "6", "7", "8", "9" }
\* [a-zA-Z0-9+.-] and [A-Za-z0-9+/=]
MimeClass == Upper \cup Lower \cup Digit \cup { "+", ".", "-" }
Base64Class == Upper \cup Lower \cup Digit \cup { "+", "/", "=" }

AllIn(chars, class) == \A i \in 1..Len(chars) : chars[i] \in class

DataUrl(major, sub, enc, data) ==
  [scheme |-> "data:", major |-> major, sub |-> sub, enc |-> enc, data |-> data]
PlainUrl(scheme, rest) ==
  [scheme |-> scheme, major |-> "", sub |-> <<>>, enc |-> "", data |-> rest]

StartsWithData(url) == url.scheme = "data:"

\* re.match(r'data:(image/[a-zA-Z0-9+.-]+);base64,([A-Za-z0-9+/=]+)$', url)
RegexMatch(url) ==
  /\ url.scheme = "data:"
  /\ url.major = "image/"
  /\ Len(url.sub) >= 1 /\ AllIn(url.sub, MimeClass)
  /\ url.enc = ";base64,"
  /\ Len(url.data) >= 1 /\ AllIn(url.data, Base64Class)

TextPart(t) == [type |-> "text", text |-> t]
ImageUrlPart(url) == [type |-> "image_url", url |-> url]
AudioPart == [type |-> "input_audio", text |-> "UklG"]

\* what one item of a content list adds to claude_content, lines 151-191
ConvertItem(item) ==
  IF item.type = "text"
  THEN << [type |-> "text", text |-> item.text] >>
  ELSE IF item.type = "image_url"
  THEN IF StartsWithData(item.url)
       THEN IF RegexMatch(item.url)
            THEN << [type |-> "image",
                     source |-> [type |-> "base64",
                                 media_type |-> <<item.url.major>> \o item.url.sub,
                                 data |-> item.url.data]] >>
            ELSE << >>
       ELSE << [type |-> "image",
                source |-> [type |-> "url", url |-> item.url]] >>
  ELSE << >>

RECURSIVE ConvertItems(_)
ConvertItems(items) ==
  IF items = << >> THEN << >>
  ELSE ConvertItem(Head(items)) \o ConvertItems(Tail(items))

ConvertOpenaiContentToClaude(content) ==
  IF content.kind = "str" THEN content
  ELSE IF content.kind = "list"
  THEN LET claude_content == ConvertItems(content.parts)
       IN  IF claude_content # << >> THEN List(claude_content) ELSE content
  ELSE content

AlwaysSonnet(openai_model) == "claude-sonnet-4"

RenameKnownModels(openai_model) ==
  IF openai_model = "gpt-4" THEN "claude-sonnet-4" ELSE openai_model

ConvertOpenaiModelToClaude(openai_model) == openai_model

Msg(role, content, tool_call_id) ==
  [role |-> role, content |-> content, tool_call_id |-> tool_call_id]

\* system_message after the loop of lines 65-96 has run over msgs
RECURSIVE SystemMessage(_, _)
SystemMessage(msgs, system_message) ==
  IF msgs = << >> THEN system_message
  ELSE SystemMessage(Tail(msgs),
                     IF Head(msgs).role = "system" THEN Head(msgs).content
                     ELSE system_message)

\* what one message adds to claude_messages, lines 69-96
ConvertMessage(msg) ==
  IF msg.role = "system" THEN << >>
  ELSE IF msg.role \in { "user", "assistant" }
  THEN << [role |-> msg.role, content |-> ConvertOpenaiContentToClaude(msg.content)] >>
  ELSE IF msg.role = "tool"
  THEN << [role |-> "user",
           content |-> List(<< [type |-> "tool_result",
                                tool_use_id |-> msg.tool_call_id,
                                content |-> msg.content] >>)] >>
  ELSE << >>

RECURSIVE ClaudeMessages(_)
ClaudeMessages(msgs) ==
  IF msgs = << >> THEN << >>
  ELSE ConvertMessage(Head(msgs)) \o ClaudeMessages(Tail(msgs))

\* `if system_message:`
Truthy(content) ==
  \/ content.kind = "str" /\ content.text # ""
  \/ content.kind = "list" /\ content.parts # << >>

\* convert_openai_to_claude, lines 54-98: model, messages and system of the
\* request it returns; has_system says whether the key "system" is set
ConvertOpenaiToClaude(openai_request) ==
  LET system_message == SystemMessage(openai_request.messages, Null)
  IN  [ model |-> ConvertOpenaiModelToClaude(openai_request.model),
        messages |-> ClaudeMessages(openai_request.messages),
        has_system |-> Truthy(system_message),
        system |-> IF Truthy(system_message) THEN system_message ELSE Null ]

Request(model, messages) ==
  [kind |-> "request", model |-> model, messages |-> messages, content |-> Null]
Content(content) ==
  [kind |-> "content", model |-> "", messages |-> << >>, content |-> content]

\* the inputs the translator is run on
PngInline == ImageUrlPart(DataUrl("image/", <<"p", "n", "g">>, ";base64,", <<"A", "A", "A", "A">>))
PngUrlSafe == ImageUrlPart(DataUrl("image/", <<"p", "n", "g">>, ";base64,", <<"A", "A", "-", "_">>))
PngRemote == ImageUrlPart(PlainUrl("https:", <<"/", "/", "h", "/", "a", ".", "p", "n", "g">>))
Parts == { TextPart("What is this?"), PngInline, PngUrlSafe, PngRemote, AudioPart }
PartLists == UNION { [1..n -> Parts] : n \in 0..MaxParts }
Contents == { Str("Hello"), Null } \cup { List(p) : p \in PartLists }

Messages ==
  { Msg("system", Str("You are A"), ""), Msg("system", Str("You are B"), ""),
    Msg("system", Str(""), ""),
    Msg("user", Str("Hello"), ""), Msg("assistant", Str("Hi there"), ""),
    Msg("user", List(<<TextPart("What is this?"), PngInline>>), ""),
    Msg("tool", Str("18C"), "call_1"), Msg("developer", Str("Be brief"), "") }
MessageLists == UNION { [1..n -> Messages] : n \in 0..MaxMsgs }
Models == { "gpt-4", "claude-sonnet-4.5", "no-such-model" }
Requests == { Request(m, msgs) : m \in Models, msgs \in MessageLists }

ConvertRequest ==
  /\ oai.kind = "request"
  /\ cres = << >>
  /\ cres' = << ConvertOpenaiToClaude(oai) >>
  /\ last' = Op("convert_openai_to_claude", 0, "-")
  /\ UNCHANGED <<accounts, cursor, now, steady, returned, reqVars, cacheVars, apikey, oai, frameVars>>

ConvertContent ==
  /\ oai.kind = "content"
  /\ cres = << >>
  /\ cres' = << ConvertOpenaiContentToClaude(oai.content) >>
  /\ last' = Op("convert_openai_content_to_claude", 0, "-")
  /\ UNCHANGED <<accounts, cursor, now, steady, returned, reqVars, cacheVars, apikey, oai, frameVars>>

\* ------------------------------------- convert_claude_to_openai_stream/non_stream
\* A canonical upstream event: its type, the delta of a content_block_delta,
\* the content_block of a content_block_start or _stop (type "none" when the
\* key is missing), the block index, the stop_reason ("absent" when missing)
\* and the usage of a message_stop.  The input of a tool is a list of
\* key/value pairs.
NoDelta == [type |-> "none", text |-> ""]
NoBlock == [type |-> "none", id |-> "", name |-> "", input |-> << >>]
NoUsage == [present |-> FALSE, input_tokens |-> 0, output_tokens |-> 0]
Usage(i, o) == [present |-> TRUE, input_tokens |-> i, output_tokens |-> o]
ToolBlock(id, name, input) ==
  [type |-> "tool_use", id |-> id, name |-> name, input |-> input]

Event(type, delta, block, index, stop_reason, usage) ==
  [ type |-> type, delta |-> delta, content_block |-> block, index |-> index,
    stop_reason |-> stop_reason, usage |-> usage ]

MessageStart == Event("message_start", NoDelta, NoBlock, 0, "absent", NoUsage)
TextDelta(t) ==
  Event("content_block_delta", [type |-> "text_delta", text |-> t], NoBlock, 0,
        "absent", NoUsage)
JsonDelta(i) ==
  Event("content_block_delta", [type |-> "input_json_delta", text |-> "{\"loc"],
        NoBlock, i, "absent", NoUsage)
ToolStart(i, id, name) ==
  Event("content_block_start", NoDelta, ToolBlock(id, name, << >>), i, "absent", NoUsage)
ToolStop(i, id, name, input) ==
  Event("content_block_stop", NoDelta, ToolBlock(id, name, input), i, "absent", NoUsage)
Ping == Event("ping", NoDelta, NoBlock, 0, "absent", NoUsage)
MessageStop(stop_reason, usage) ==
  Event("message_stop", NoDelta, NoBlock, 0, stop_reason, usage)

\* json.dumps of a flat object of strings
RECURSIVE JsonMembers(_)
JsonMembers(input) ==
  IF input = << >> THEN ""
  ELSE "\"" \o Head(input)[1] \o "\": \"" \o Head(input)[2] \o "\""
       \o (IF Len(input) > 1 THEN ", " ELSE "") \o JsonMembers(Tail(input))

JsonDumpsEmptyObject(input) == "{}"

JsonDumps(input) == "{" \o JsonMembers(input) \o "}"

\* event.get("stop_reason", "stop")
StopReasonOf(event) ==
  IF event.stop_reason = "absent" THEN "stop" ELSE event.stop_reason

FinishReasonMapToolUseStops(stop_reason) ==
  CASE stop_reason = "max_tokens" -> "length"
    [] OTHER -> "stop"

\* finish_reason_map.get(stop_reason, "stop"), lines 327-333 and 420-426
FinishReasonMap(stop_reason) ==
  CASE stop_reason = "end_turn" -> "stop"
    [] stop_reason = "max_tokens" -> "length"
    [] stop_reason = "stop_sequence" -> "stop"
    [] stop_reason = "tool_use" -> "tool_calls"
    [] OTHER -> "stop"

\* the delta of a chunk: the keys it has and their values
Delta(keys, content, tool_calls) ==
  [keys |-> keys, role |-> "assistant", content |-> content, tool_calls |-> tool_calls]
ToolCall(index, id, name, arguments) ==
  [index |-> index, id |-> id, type |-> "function", name |-> name,
   arguments |-> arguments]
Chunk(delta, finish_reason) ==
  [object |-> "chat.completion.chunk", delta |-> delta, finish_reason |-> finish_reason]
\* the line "data: [DONE]"
Done == [object |-> "[DONE]", delta |-> Delta({}, "", << >>), finish_reason |-> "null"]

ConvertClaudeToOpenaiStreamNoSentinel(claude_event, event_type) ==
  IF event_type = "message_start"
  THEN << Chunk(Delta({"role", "content"}, "", << >>), "null") >>
  ELSE IF event_type = "content_block_delta" /\ claude_event.delta.type = "text_delta"
  THEN << Chunk(Delta({"content"}, claude_event.delta.text, << >>), "null") >>
  ELSE IF event_type = "message_stop"
  THEN << Chunk(Delta({}, "", << >>), FinishReasonMap(StopReasonOf(claude_event))) >>
  ELSE << >>

\* convert_claude_to_openai_stream: the frames in the string it returns, none
\* when it returns None
ConvertClaudeToOpenaiStream(claude_event, event_type) ==
  IF event_type = "message_start"
  THEN << Chunk(Delta({"role", "content"}, "", << >>), "null") >>
  ELSE IF event_type = "content_block_delta"
  THEN IF claude_event.delta.type = "text_delta"
       THEN << Chunk(Delta({"content"}, claude_event.delta.text, << >>), "null") >>
       ELSE << >>
  ELSE IF event_type = "content_block_start"
  THEN IF claude_event.content_block.type = "tool_use"
       THEN << Chunk(Delta({"tool_calls"}, "",
                           << ToolCall(claude_event.index, claude_event.content_block.id,
                                       claude_event.content_block.name, "") >>),
                     "null") >>
       ELSE << >>
  ELSE IF event_type = "content_block_stop"
  THEN IF claude_event.content_block.type = "tool_use"
       THEN << Chunk(Delta({"tool_calls"}, "",
                           << ToolCall(claude_event.index, claude_event.content_block.id,
                                       claude_event.content_block.name,
                                       JsonDumps(claude_event.content_block.input)) >>),
                     "null") >>
       ELSE << >>
  ELSE IF event_type = "message_stop"
  THEN << Chunk(Delta({}, "", << >>), FinishReasonMap(StopReasonOf(claude_event))), Done >>
  ELSE << >>

\* "".join(content_parts), lines 386-391 and 429
RECURSIVE JoinedContent(_)
JoinedContent(claude_events) ==
  IF claude_events = << >> THEN ""
  ELSE LET event == Head(claude_events)
       IN  (IF event.type = "content_block_delta" /\ event.delta.type = "text_delta"
            THEN event.delta.text ELSE "")
           \o JoinedContent(Tail(claude_events))

\* lines 409-416: the first tool call with the id gets the arguments
FillArguments(tool_calls, id, arguments) ==
  LET hits == { i \in 1..Len(tool_calls) : tool_calls[i].id = id }
  IN  IF hits = {} THEN tool_calls
      ELSE [tool_calls EXCEPT ![Min(hits)].arguments = arguments]

\* tool_calls after the loop of lines 374-427 has run over claude_events
RECURSIVE CollectToolCalls(_, _)
CollectToolCalls(claude_events, tool_calls) ==
  IF claude_events = << >> THEN tool_calls
  ELSE LET event == Head(claude_events)
           block == event.content_block
       IN  CollectToolCalls(Tail(claude_events),
             IF event.type = "content_block_start" /\ block.type = "tool_use"
             THEN Append(tool_calls,
                         [id |-> block.id, type |-> "function", name |-> block.name,
                          arguments |-> ""])
             ELSE IF event.type = "content_block_stop" /\ block.type = "tool_use"
             THEN FillArguments(tool_calls, block.id, JsonDumps(block.input))
             ELSE tool_calls)

\* finish_reason after the loop: the last message_stop decides
RECURSIVE CollectFinishReason(_, _)
CollectFinishReason(claude_events, finish_reason) ==
  IF claude_events = << >> THEN finish_reason
  ELSE CollectFinishReason(Tail(claude_events),
         IF Head(claude_events).type = "message_stop"
         THEN FinishReasonMap(StopReasonOf(Head(claude_events)))
         ELSE finish_reason)

ZeroUsage == [prompt_tokens |-> 0, completion_tokens |-> 0, total_tokens |-> 0]

\* lines 451-460: the usage of the last message_stop, if it has one
CollectUsage(claude_events) ==
  LET stops == { i \in 1..Len(claude_events) : claude_events[i].type = "message_stop" }
  IN  IF stops = {} THEN ZeroUsage
      ELSE LET event == claude_events[CHOOSE i \in stops : \A j \in stops : j <= i]
           IN  IF event.usage.present
               THEN [prompt_tokens |-> event.usage.input_tokens,
                     completion_tokens |-> event.usage.output_tokens,
                     total_tokens |-> event.usage.input_tokens + event.usage.output_tokens]
               ELSE ZeroUsage

MessageContentBlankedByTools(content, tool_calls) ==
  IF content # "" /\ tool_calls = << >> THEN Str(content) ELSE Null

\* lines 438 and 445-449: `content if content else None`
MessageContent(content, tool_calls) ==
  IF content # "" THEN Str(content) ELSE Null

ConvertClaudeToOpenaiNonStream(claude_events) ==
  LET content    == JoinedContent(claude_events)
      tool_calls == CollectToolCalls(claude_events, << >>)
  IN  [ object |-> "chat.completion",
        role |-> "assistant",
        content |-> MessageContent(content, tool_calls),
        has_tool_calls |-> tool_calls # << >>,
        tool_calls |-> tool_calls,
        finish_reason |-> CollectFinishReason(claude_events, "stop"),
        usage |-> CollectUsage(claude_events) ]

\* the event as handle_amazonq_stream yields it and claude_stream passes it on
PassThrough(event) == [object |-> "claude_event", event |-> event]

\* the upstream event sequences the response path is run on
WeatherInput == << <<"location", "SF">> >>
StopEvents ==
  { MessageStop("end_turn", Usage(3, 2)), MessageStop("max_tokens", NoUsage),
    MessageStop("stop_sequence", NoUsage), MessageStop("tool_use", Usage(3, 0)),
    MessageStop("refusal", NoUsage), MessageStop("absent", NoUsage) }
Events ==
  { MessageStart, TextDelta("Hi"), TextDelta("!"), TextDelta(""), JsonDelta(1),
    ToolStart(1, "tool_1", "get_weather"),
    ToolStop(1, "tool_1", "get_weather", WeatherInput),
    ToolStop(1, "tool_9", "get_weather", WeatherInput), Ping } \cup StopEvents
EventLists == UNION { [1..n -> Events] : n \in 0..MaxEvents }
Styles == { "reframer", "chat_completions", "chat_completions_stream", "messages" }

\* one call of convert_claude_to_openai_stream, on the next event of the
\* sequence; what it returns is written out unless it is None
StreamEvent ==
  /\ style = "reframer"
  /\ fed < Len(events)
  /\ fed' = fed + 1
  /\ frames' = frames \o ConvertClaudeToOpenaiStream(events[fed + 1], events[fed + 1].type)
  /\ last' = Op("convert_claude_to_openai_stream", 0, events[fed + 1].type)
  /\ UNCHANGED <<accounts, cursor, now, steady, returned, reqVars, cacheVars, apikey, oai, cres,
                 events, resp, style>>

\* create_message_non_stream, lines 611-645, for /v1/chat/completions without
\* stream: all events are collected, then aggregated into one response
Aggregate ==
  /\ style = "chat_completions"
  /\ resp = << >>
  /\ fed' = Len(events)
  /\ resp' = << ConvertClaudeToOpenaiNonStream(events) >>
  /\ last' = Op("convert_claude_to_openai_non_stream", 0, "-")
  /\ UNCHANGED <<accounts, cursor, now, steady, returned, reqVars, cacheVars, apikey, oai, cres,
                 events, frames, style>>

\* create_message.claude_stream, lines 400-413, which serves /v1/messages and,
\* through create_chat_completion line 748, /v1/chat/completions with stream:
\* every event of the decoder is yielded as it is
ClaudeStreamEvent ==
  /\ style \in { "chat_completions_stream", "messages" }
  /\ fed < Len(events)
  /\ fed' = fed + 1
  /\ frames' = Append(frames, PassThrough(events[fed + 1]))
  /\ last' = Op("claude_stream", 0, events[fed + 1].type)
  /\ UNCHANGED <<accounts, cursor, now, steady, returned, reqVars, cacheVars, apikey, oai, cres,
                 events, resp, style>>

\* ------------------------------------------------------------- properties

\* C1: while every selection has found all k accounts active, healthy and not
\* rate limited, the accounts are returned in cyclic id order from cursor 0:
\* after N calls account a has been returned (N + k - a) \div k times, which
\* is floor(N/k) or ceil(N/k), the cursor is N mod k and the last account
\* returned is the one at position (N - 1) mod k.
RoundRobinFair ==
  steady =>
    LET n == TotalCalls(accounts)
    IN  /\ \A a \in Ids :
             /\ accounts[a].total_requests = (n + NumAccounts - a) \div NumAccounts
             /\ accounts[a].total_requests \in
                  { n \div NumAccounts, (n + NumAccounts - 1) \div NumAccounts }
        /\ cursor = n % NumAccounts
        /\ (last.op = "select" => last.acct = ((n - 1) % NumAccounts) + 1)

RoundRobinWrapped ==
  /\ steady
  /\ last.op = "select"
  /\ TotalCalls(accounts) > NumAccounts
  /\ now > 0

\* C2: a usable account at its ceiling inside its minute is not returned while
\* another usable account is not rate limited; an account at its ceiling that
\* is returned once its reset instant has passed restarts its counter, so that
\* it leaves the call with current_rpm 1 and rpm_reset_at one minute ahead.
RateLimitedSkipped ==
  [][ last'.op = "select" =>
        \A a \in Ids :
          /\ ( /\ Usable(accounts'[a])
               /\ AtCeiling(accounts[a], now)
               /\ \E b \in Ids : Usable(accounts'[b]) /\ ~AtCeiling(accounts[b], now) )
             => last'.acct # a
          /\ ( /\ last'.acct = a
               /\ accounts[a].rpm_reset_at # NULL
               /\ accounts[a].current_rpm >= accounts[a].requests_per_minute
               /\ now >= accounts[a].rpm_reset_at )
             => /\ accounts'[a].current_rpm = 1
                /\ accounts'[a].rpm_reset_at = now + RpmWindow ]_vars

RateLimitedSkippedThenReset ==
  \E a, b \in Ids :
    /\ a # b
    /\ last = Op("select", a, "skipped")
    /\ Usable(accounts[b])
    /\ AtCeiling(accounts[b], now)
    /\ accounts[a].total_requests > accounts[a].requests_per_minute
    /\ accounts[a].current_rpm = 1
    /\ accounts[a].rpm_reset_at = now + RpmWindow

\* C3: when every usable account is rate limited, the selection still returns
\* an account: the one at the cursor position; the cursor moves one past it
\* (wrapping) and its current_rpm goes up by one, beyond requests_per_minute.
AllLimitedServesCursor ==
  [][ ( /\ last'.op = "select"
        /\ \E a \in Ids : Usable(accounts'[a])
        /\ \A a \in Ids : Usable(accounts'[a]) => AtCeiling(accounts[a], now) )
      => LET usable == { a \in Ids : Usable(accounts'[a]) }
             k      == Cardinality(usable)
             start  == IF cursor >= k THEN 0 ELSE cursor
             atCur  == CHOOSE a \in usable :
                         Cardinality({ b \in usable : b < a }) = start
         IN  /\ last'.acct = atCur
             /\ cursor' = (start + 1) % k
             /\ accounts'[atCur].current_rpm = accounts[atCur].current_rpm + 1
             /\ accounts'[atCur].current_rpm > accounts'[atCur].requests_per_minute ]_vars

ServedOverLimit ==
  \E a \in Ids :
    /\ last = Op("select", a, "fallback")
    /\ accounts[a].current_rpm > accounts[a].requests_per_minute
    /\ \E b \in Ids : b # a /\ Usable(accounts[b]) /\ AtCeiling(accounts[b], now)

\* C4: a selection returns None exactly when, after its recovery sweep, no
\* account is both active and healthy, and it then leaves the cursor and every
\* account's current_rpm, rpm_reset_at, total_requests and last_used as they were.
NoneIffPoolExhausted ==
  [][ last'.op = "select" =>
        /\ (last'.acct = 0) <=> (\A a \in Ids : ~Usable(accounts'[a]))
        /\ last'.acct = 0 =>
             /\ cursor' = cursor
             /\ \A a \in Ids :
                  /\ accounts'[a].current_rpm = accounts[a].current_rpm
                  /\ accounts'[a].rpm_reset_at = accounts[a].rpm_reset_at
                  /\ accounts'[a].total_requests = accounts[a].total_requests
                  /\ accounts'[a].last_used = accounts[a].last_used ]_vars

PoolExhausted ==
  /\ last = Op("select", 0, "none")
  /\ cursor > 0
  /\ \E a \in Ids : ~accounts[a].is_healthy /\ accounts[a].is_active
  /\ \E a \in Ids : ~accounts[a].is_active

\* C5: the account a selection returns is active and healthy in the rows the
\* selection leaves, also when it is served over its limit.
ReturnedIsUsable ==
  (last.op = "select" /\ last.acct # 0) => Usable(accounts[last.acct])

ReturnedBesideUnhealthy ==
  \E a, b \in Ids :
    /\ last = Op("select", a, "fallback")
    /\ accounts[a].current_rpm > accounts[a].requests_per_minute
    /\ accounts[b].is_active
    /\ ~accounts[b].is_healthy

SweepRecoversDue ==
  [][ last'.op = "select" =>
        \A a \in Ids :
          /\ ( /\ ~accounts[a].is_healthy
               /\ accounts[a].auto_recover_at # NULL
               /\ accounts[a].auto_recover_at <= now )
             => /\ ErrorFree(accounts'[a])
                /\ accounts[a].is_active => last'.acct # 0
                /\ ( /\ accounts[a].is_active
                     /\ \A b \in Ids \ {a} : ~Usable(accounts'[b]) )
                   => last'.acct = a
          /\ ( /\ ~accounts[a].is_healthy
               /\ accounts[a].auto_recover_at # NULL
               /\ accounts[a].auto_recover_at > now )
             => accounts'[a] = accounts[a] ]_vars

RecoveredAndReturned ==
  \E a \in Ids :
    /\ last = Op("select", a, "recovered")
    /\ ErrorFree(accounts[a])
    /\ accounts[a].last_used = now
    /\ \E b \in Ids : ~accounts[b].is_active

\* the rows and cursor n selections made one after the other leave
RECURSIVE SerialRun(_)
SerialRun(n) ==
  IF n = 0 THEN [accts |-> [a \in Ids |-> NewAccount], cursor |-> 0]
  ELSE LET before == SerialRun(n - 1)
       IN  GetNext(before.accts, before.cursor, now)

\* C6: under every interleaving of the requests' steps, the selections made so
\* far have left the cursor and each account's current_rpm and rpm_reset_at as
\* the same number of selections made one after the other would, and an
\* account's current_rpm counts each request it was returned to exactly once.
SelectionsSerialized ==
  LET n == Cardinality({ r \in Reqs : pc[r] # "start" })
  IN  /\ cursor = SerialRun(n).cursor
      /\ \A a \in Ids :
           /\ accounts[a].current_rpm = SerialRun(n).accts[a].current_rpm
           /\ accounts[a].rpm_reset_at = SerialRun(n).accts[a].rpm_reset_at
           /\ accounts[a].current_rpm = Cardinality({ r \in Reqs : sel[r] = a })

SharedAccountInFlight ==
  \E r1, r2 \in Reqs :
    /\ r1 # r2
    /\ sel[r1] # 0
    /\ sel[r1] = sel[r2]
    /\ pc[r1] = "aborted"
    /\ reported[sel[r1]] > 0
    /\ pc[r2] = "token"
    /\ \A r \in Reqs : pc[r] # "start"

\* C10: with failure reports only (no success, all inside one error window),
\* no report is lost: an account's error_count is the number of failure
\* reports issued for it, and it is unhealthy once that number reaches 5.
NoReportLost ==
  \A a \in Ids :
    /\ accounts[a].error_count = reported[a]
    /\ reported[a] >= 5 => ~accounts[a].is_healthy


\* C11: get_token_cache returns no entry once the clock has reached expires_at
\* minus the safety margin of 5 minutes: whoever is handed an entry is handed
\* it more than 5 minutes before its expires_at.
NoTokenInsideMargin ==
  (last.op = "get_token_cache" /\ last.note = "hit")
    => now < cache[last.acct] - SafetyMargin


\* C12: with the cache available, a request whose credential exchange succeeds
\* leaves the token in the cache under its account, expiring one lifetime
\* after the exchange (so that a later request for the account can be served
\* from the cache without another exchange).
ExchangedTokenCached ==
  [][ \A r \in Reqs :
        (redis /\ pc[r] = "token" /\ pc'[r] = "dispatch")
          => cache'[sel[r]] = now + DefaultLifetime ]_vars


\* the health columns of every account are left as they were
HealthUntouched ==
  \A a \in Ids :
    /\ accounts'[a].error_count = accounts[a].error_count
    /\ accounts'[a].is_healthy = accounts[a].is_healthy
    /\ accounts'[a].first_error_time = accounts[a].first_error_time
    /\ accounts'[a].last_error_time = accounts[a].last_error_time
    /\ accounts'[a].auto_recover_at = accounts[a].auto_recover_at

\* C13: the step in which a request's credential exchange fails issues exactly
\* one failure report, for the account selected and for no other, and answers
\* 503; the request is never dispatched afterwards.
ExchangeFailureReportedOnce ==
  [][ \A r \in Reqs :
        /\ (pc[r] = "token" /\ pc'[r] = "failed")
             => /\ reported'[sel[r]] = reported[sel[r]] + 1
                /\ \A a \in Ids \ {sel[r]} : reported'[a] = reported[a]
                /\ accounts'[sel[r]].health_check_error = "token"
                /\ answer'[r] = "503"
        /\ (pc[r] = "failed" /\ answer[r] = "503")
             => (pc'[r] = "failed" /\ answer'[r] = "503") ]_vars

ExchangeFailedBothHandlers ==
  \E r1, r2 \in Reqs :
    /\ mode[r1] = "stream"
    /\ mode[r2] = "non_stream"
    /\ pc[r1] = "failed" /\ answer[r1] = "503"
    /\ pc[r2] = "failed" /\ answer[r2] = "503"
    /\ reported[sel[r1]] = 1
    /\ reported[sel[r2]] = 1

\* C14: the step in which a dispatch fails (status other than 200, or network
\* error) issues exactly one failure report for the account selected, and the
\* caller's answer is 502.
DispatchFailureIsBadGateway ==
  [][ \A r \in Reqs :
        (pc[r] = "dispatch" /\ pc'[r] \in { "failed", "aborting" })
          => /\ reported'[sel[r]] = reported[sel[r]] + 1
             /\ answer'[r] = "502" ]_vars

\* C15: the steps by which a request ends as malformed or as abandoned by its
\* client (the disconnect and the finally block that follows it) issue no
\* report and leave the health columns of every account as they were.
NoReportForClientFault ==
  [][ \A r \in Reqs :
        (pc'[r] # pc[r] /\ pc'[r] \in { "malformed", "cancelling", "cancelled" })
          => /\ reported' = reported
             /\ HealthUntouched ]_vars

CancelledBesideErrors ==
  \E r1, r2 \in Reqs :
    /\ pc[r1] = "cancelled"
    /\ accounts[sel[r1]].error_count > 0
    /\ accounts[sel[r1]].total_requests = 2
    /\ pc[r2] = "malformed"

\* C16: when a request whose stream was read to its end under status 200 is
\* completed, its account has error_count 0 and is healthy.
SuccessReported ==
  [][ \A r \in Reqs :
        (pc[r] = "streamed" /\ pc'[r] = "done")
          => /\ accounts'[sel[r]].error_count = 0
             /\ accounts'[sel[r]].is_healthy ]_vars

IsSystem(msg) == msg.role = "system"
NotSystem(msg) == msg.role # "system"
Converted == oai.kind = "request" /\ cres # << >>

\* C17: convert_openai_to_claude puts the content of the system message in
\* `system` and keeps it out of `messages`, and every other message of the
\* request gives exactly one canonical message, in the original order, with
\* its role and content kept (read in the claim's favour: a content list may
\* appear in its canonical form and a tool message as the user message that
\* carries its result).
EveryMessageKept ==
  Converted =>
    LET sys    == SelectSeq(oai.messages, IsSystem)
        others == SelectSeq(oai.messages, NotSystem)
        out    == cres[1]
    IN  /\ (Len(sys) = 1 /\ Truthy(sys[1].content))
             => out.has_system /\ out.system = sys[1].content
        /\ \A i \in 1..Len(out.messages) : out.messages[i].role # "system"
        /\ Len(out.messages) = Len(others)
        /\ \A i \in 1..Len(others) :
             i <= Len(out.messages) =>
               \/ /\ out.messages[i].role = others[i].role
                  /\ out.messages[i].content
                       \in { others[i].content,
                             ConvertOpenaiContentToClaude(others[i].content) }
               \/ /\ others[i].role = "tool"
                  /\ out.messages[i] = ConvertMessage(others[i])[1]

\* C18: when a request holds more than one system message, the canonical
\* system prompt is the content of the first of them (what the claim says of
\* the other messages is the subject of C17).
FirstSystemWins ==
  Converted =>
    LET sys == SelectSeq(oai.messages, IsSystem)
        out == cres[1]
    IN  (Len(sys) > 1 /\ Truthy(sys[1].content))
          => out.has_system /\ out.system = sys[1].content

\* C19: convert_openai_content_to_claude returns a string content unchanged
\* and, for a content list, a list of as many parts in the same order, in
\* which every image_url part has become an image part: with a base64 source
\* of the URL's media type and payload when the URL has the form
\* data:<image mime>;base64,<payload>, with a source of type url carrying the
\* same URL when the URL is not a data URL.
PartsMapped ==
  (oai.kind = "content" /\ cres # << >>) =>
    LET content == oai.content
        out     == cres[1]
    IN  /\ content.kind = "str" => out = content
        /\ content.kind = "list" =>
             /\ out.kind = "list"
             /\ Len(out.parts) = Len(content.parts)
             /\ \A i \in 1..Len(content.parts) :
                  LET item == content.parts[i]
                      part == out.parts[i]
                  IN  /\ item.type = "text" => part = TextPart(item.text)
                      /\ item.type = "image_url" =>
                           /\ part.type = "image"
                           /\ ~StartsWithData(item.url)
                                => part.source = [type |-> "url", url |-> item.url]
                           /\ ( /\ StartsWithData(item.url)
                                /\ item.url.major = "image/"
                                /\ item.url.enc = ";base64," )
                                => part.source =
                                     [type |-> "base64",
                                      media_type |-> <<item.url.major>> \o item.url.sub,
                                      data |-> item.url.data]

RECURSIVE FramesOfAll(_)
FramesOfAll(evs) ==
  IF evs = << >> THEN << >>
  ELSE ConvertClaudeToOpenaiStream(Head(evs), Head(evs).type) \o FramesOfAll(Tail(evs))

IsTextDelta(event) ==
  event.type = "content_block_delta" /\ event.delta.type = "text_delta"

\* C22: the re-framer's output for the events handled so far is the
\* concatenation, in upstream order, of the frames of each event taken alone;
\* a message_start gives one chunk with role assistant and empty content, a
\* text delta one chunk whose content is exactly its text, a message_stop one
\* chunk with a finish reason followed by the sentinel.
FramesInEventOrder ==
  style = "reframer" =>
    /\ frames = FramesOfAll(SubSeq(events, 1, fed))
    /\ \A i \in 1..Len(events) :
         LET event == events[i]
             own   == ConvertClaudeToOpenaiStream(event, event.type)
         IN  /\ event.type = "message_start"
                  => /\ Len(own) = 1
                     /\ own[1].object = "chat.completion.chunk"
                     /\ own[1].delta.keys = {"role", "content"}
                     /\ own[1].delta.role = "assistant"
                     /\ own[1].delta.content = ""
                     /\ own[1].finish_reason = "null"
             /\ IsTextDelta(event)
                  => /\ Len(own) = 1
                     /\ own[1].object = "chat.completion.chunk"
                     /\ own[1].delta.keys = {"content"}
                     /\ own[1].delta.content = event.delta.text
                     /\ own[1].finish_reason = "null"
             /\ event.type = "message_stop"
                  => /\ Len(own) = 2
                     /\ own[1].object = "chat.completion.chunk"
                     /\ own[1].delta.keys = {}
                     /\ own[1].finish_reason # "null"
                     /\ own[2] = Done

\* message_start, the text delta "Hi" and message_stop(end_turn) have gone
\* through the re-framer: role chunk, "Hi", finish reason stop, sentinel
HiReframed ==
  /\ style = "reframer"
  /\ events = << MessageStart, TextDelta("Hi"), MessageStop("end_turn", Usage(3, 2)) >>
  /\ fed = 3
  /\ Len(frames) = 4
  /\ frames[1].delta.keys = {"role", "content"}
  /\ frames[2].delta.content = "Hi"
  /\ frames[3].finish_reason = "stop"
  /\ frames[4] = Done

ClaimedFinishReason(stop_reason) ==
  IF stop_reason = "end_turn" THEN "stop"
  ELSE IF stop_reason = "max_tokens" THEN "length"
  ELSE IF stop_reason = "stop_sequence" THEN "stop"
  ELSE IF stop_reason = "tool_use" THEN "tool_calls"
  ELSE "stop"

MessageStops == { i \in 1..Len(events) : events[i].type = "message_stop" }

\* C23: the finish chunk the re-framer writes for a message_stop, and the
\* finish_reason of the aggregated response for the last message_stop of the
\* sequence, are stop for end_turn, length for max_tokens, stop for
\* stop_sequence, tool_calls for tool_use and stop for any other or missing
\* reason; a sequence without message_stop is aggregated into a response with
\* finish_reason stop and the text accumulated so far.
FinishReasonMapped ==
  /\ (style = "reframer" /\ fed >= 1 /\ events[fed].type = "message_stop")
       => /\ Len(frames) >= 2
          /\ frames[Len(frames) - 1].finish_reason
               = ClaimedFinishReason(events[fed].stop_reason)
  /\ (style = "chat_completions" /\ resp # << >>)
       => IF MessageStops = {}
          THEN /\ resp[1].finish_reason = "stop"
               /\ resp[1].content = IF JoinedContent(events) = "" THEN Null
                                     ELSE Str(JoinedContent(events))
          ELSE LET i == CHOOSE i \in MessageStops : \A j \in MessageStops : j <= i
               IN  resp[1].finish_reason = ClaimedFinishReason(events[i].stop_reason)

\* a sequence cut off after two text deltas has been aggregated
CutOffAggregated ==
  /\ style = "chat_completions"
  /\ events = << MessageStart, TextDelta("Hi"), TextDelta("!") >>
  /\ MessageStops = {}
  /\ resp # << >>
  /\ resp[1].finish_reason = "stop"
  /\ resp[1].content = Str("Hi!")

IsToolStart(event) ==
  event.type = "content_block_start" /\ event.content_block.type = "tool_use"
IsToolStop(event) ==
  event.type = "content_block_stop" /\ event.content_block.type = "tool_use"
HasToolCalls(frame) ==
  frame.object = "chat.completion.chunk" /\ "tool_calls" \in frame.delta.keys
ToolStarts == { i \in 1..Len(events) : IsToolStart(events[i]) }
ToolStops == { i \in 1..Len(events) : IsToolStop(events[i]) }
\* the sequence holds one tool-use block: one start, then one stop
OneToolBlock ==
  /\ Cardinality(ToolStarts) = 1
  /\ Cardinality(ToolStops) = 1
  /\ \A i \in ToolStarts, j \in ToolStops :
       i < j /\ events[i].content_block.id = events[j].content_block.id

RECURSIVE TextDeltasJoined(_)
TextDeltasJoined(evs) ==
  IF evs = << >> THEN ""
  ELSE (IF IsTextDelta(Head(evs)) THEN Head(evs).delta.text ELSE "")
       \o TextDeltasJoined(Tail(evs))

\* C25: the aggregated response carries as message content the text deltas
\* joined in arrival order, null when that is the empty string and kept when
\* there are tool calls as well; its usage is prompt = input tokens,
\* completion = output tokens and total = their sum, read from the last
\* message_stop, and all zero when that event has no usage or there is none.
AggregatedContentAndUsage ==
  (style = "chat_completions" /\ resp # << >>) =>
    LET text == TextDeltasJoined(events)
    IN  /\ resp[1].object = "chat.completion"
        /\ resp[1].content = IF text = "" THEN Null ELSE Str(text)
        /\ IF MessageStops = {}
           THEN resp[1].usage = ZeroUsage
           ELSE LET stop == events[CHOOSE i \in MessageStops :
                                     \A j \in MessageStops : j <= i]
                IN  IF stop.usage.present
                    THEN /\ resp[1].usage.prompt_tokens = stop.usage.input_tokens
                         /\ resp[1].usage.completion_tokens = stop.usage.output_tokens
                         /\ resp[1].usage.total_tokens
                              = stop.usage.input_tokens + stop.usage.output_tokens
                    ELSE resp[1].usage = ZeroUsage

\* text beside a tool call, and a message_stop with usage 3 and 2
TextKeptBesideToolCall ==
  /\ style = "chat_completions"
  /\ events = << TextDelta("Hi"), ToolStart(1, "tool_1", "get_weather"),
                 MessageStop("end_turn", Usage(3, 2)) >>
  /\ resp # << >>
  /\ resp[1].content = Str("Hi")
  /\ resp[1].has_tool_calls
  /\ resp[1].usage = [prompt_tokens |-> 3, completion_tokens |-> 2, total_tokens |-> 5]

\* C26: once every event of a (non-empty) upstream sequence has gone through
\* the OpenAI re-framer, the frame `data: [DONE]` has been written exactly
\* once and is the last frame written.
SentinelOnceAndLast ==
  (style = "reframer" /\ Len(events) >= 1 /\ fed = Len(events)) =>
    /\ Cardinality({ i \in 1..Len(frames) : frames[i] = Done }) = 1
    /\ frames[Len(frames)] = Done

\* C27: every frame written to the caller of /v1/chat/completions with
\* stream = true is a chat.completion.chunk of the OpenAI re-framer or the
\* sentinel, the sentinel comes last once the (non-empty) sequence is
\* through, and events passed through in Claude format are written for
\* callers of /v1/messages only.
OpenaiCallerGetsChunks ==
  /\ style = "chat_completions_stream"
       => /\ \A i \in 1..Len(frames) :
               frames[i].object \in { "chat.completion.chunk", "[DONE]" }
          /\ (Len(events) >= 1 /\ fed = Len(events))
               => Len(frames) >= 1 /\ frames[Len(frames)] = Done
  /\ (\E i \in 1..Len(frames) : frames[i].object = "claude_event")
       => style = "messages"

\* C28: no step of any interleaving of concurrent requests lowers the stored
\* total_requests of an account.
UsageCountersNeverDecrease ==
  [][ \A a \in Ids : accounts'[a].total_requests >= accounts[a].total_requests ]_vars

UnhealthyDeadlineRefreshed ==
  [][ \A a \in Ids :
        (last'.op = "fail" /\ last'.acct = a /\ ~accounts[a].is_healthy) =>
          IF \/ accounts[a].auto_recover_at = NULL
             \/ accounts[a].auto_recover_at < now
          THEN accounts'[a].auto_recover_at = now + RecoverDelay
          ELSE /\ accounts'[a].auto_recover_at = accounts[a].auto_recover_at
               /\ accounts'[a].is_healthy = accounts[a].is_healthy ]_vars

\* C31: an image_url part whose URL starts with data: and does not match the
\* anchored pattern is rejected: the translated content holds neither that
\* part nor an image part made from it, whatever the other parts are and also
\* when it is the only part.
MalformedDataUrlRejected ==
  (oai.kind = "content" /\ cres # << >> /\ oai.content.kind = "list") =>
    \A i \in 1..Len(oai.content.parts) :
      LET item == oai.content.parts[i]
      IN  ( /\ item.type = "image_url"
            /\ StartsWithData(item.url)
            /\ ~RegexMatch(item.url) )
            => /\ cres[1].kind = "list"
               /\ \A k \in 1..Len(cres[1].parts) :
                    /\ cres[1].parts[k] # item
                    /\ cres[1].parts[k].type = "image"
                         => /\ cres[1].parts[k].source.type = "base64"
                                 => cres[1].parts[k].source.data # item.url.data
                            /\ cres[1].parts[k].source.type = "url"
                                 => cres[1].parts[k].source.url # item.url

\* C32: in the aggregated response the tool calls are listed in the order
\* their blocks were opened, and the input of a content_block_stop is the
\* arguments of the tool call opened by the content_block_start with the same
\* block index, whatever the tool ids of the two events are (stated for
\* sequences with one stop, which comes after the start of its block).
InputAttachedByBlockIndex ==
  (style = "chat_completions" /\ resp # << >> /\ Cardinality(ToolStops) = 1) =>
    LET j      == CHOOSE j \in ToolStops : TRUE
        opened == { i \in ToolStarts : i < j /\ events[i].index = events[j].index }
        \* the position, among the tool calls, of the block opened first
        nth(i) == Cardinality({ h \in ToolStarts : h <= i })
    IN  /\ Len(resp[1].tool_calls) = Cardinality(ToolStarts)
        /\ opened # {} =>
             LET i == CHOOSE i \in opened : \A h \in opened : i <= h
             IN  resp[1].tool_calls[nth(i)].arguments
                   = JsonDumps(events[j].content_block.input)

\* C33: a pass of the background sweep handles every active account whose
\* cached token is missing or within five minutes of its expiry: the token is
\* exchanged and cached and the success written to the account, or the failure
\* is written to that account; an account that is not due, or not active, is
\* left as it was, whatever happened to the accounts before it in the pass.
SweepDue(a) ==
  /\ accounts[a].is_active
  /\ \/ ~CacheLookup(cache, a, now).hit
     \/ now >= cache[a] - SweepMargin

TotalRequestsEqualsSelections ==
  (\A r \in Reqs : pc[r] \in { "start", "malformed", "rejected", "failed", "done",
                               "aborted", "cancelled" })
    => \A a \in Ids :
         accounts[a].total_requests = Cardinality({ r \in Reqs : sel[r] = a })

\* C35: refresh_token_for_account called with account_id while the cache holds
\* the account's token and now < expires_at - 5 minutes returns the cached token
\* and leaves the cache as it is; a call that exchanges with the cache
\* available stores the new token with expiry now + expires_in.
CachedTokenServed ==
  [][ \A a \in Ids :
        (last'.op = "refresh_id" /\ last'.acct = a) =>
          /\ (redis /\ KeyStored(cache, a, now) /\ now < cache[a] - SafetyMargin)
               => (last'.note = "cached" /\ cache' = cache)
          /\ (redis /\ last'.note = "exchanged")
               => cache'[a] = now + DefaultLifetime ]_vars

\* C36: in every state the pool operations reach, an account that is not
\* healthy has an auto_recover_at; and, the clock advancing and selections
\* going on, every account that is not a candidate becomes one again, whether
\* or not a success is reported for it.
UnhealthyHasDeadline ==
  \A a \in Ids : ~accounts[a].is_healthy => accounts[a].auto_recover_at # NULL

RoundRobinKeptAcrossChanges ==
  [][ (last'.op = "select" /\ last'.acct # 0 /\ last'.acct = returned) =>
        LET swept == CheckAndAutoRecover(accounts, now)
        IN  ~ \E b \in Ids \ { returned } :
                IsCandidate(swept[b]) /\ ~IsRateLimited(swept[b], now) ]_vars

\* C38: a call of validate_key that accepts the key leaves no more accepted
\* calls in the key's minute than requests_per_minute, and no more in its day
\* than requests_per_day, whatever the ceilings are (0 included); a call that
\* turns the key down leaves the key's row as it was.
KeyCeilingsKept ==
  [][ last'.op = "validate_key" =>
        /\ last'.note = "accepted" =>
             /\ apikey'.current_rpm <= apikey'.requests_per_minute
             /\ apikey'.current_rpd <= apikey'.requests_per_day
        /\ last'.note = "rejected" => apikey' = apikey ]_vars

\* C39: a request that is let in, by whichever endpoint, has taken exactly one
\* unit of its key's quota, and one that is turned down none.
OneUnitPerRequest ==
  [][ last'.op \in Endpoints =>
        /\ last'.note = "admitted" =>
             /\ apikey'.total_requests = apikey.total_requests + 1
        /\ last'.note # "admitted" =>
             /\ apikey'.total_requests = apikey.total_requests ]_vars

\* ---------------------------------------------------------------- Spec
Init ==
  /\ accounts = [a \in Ids |-> NewAccount]
  /\ cursor = 0
  /\ now = 0
  /\ last = Op("init", 0, "-")
  /\ steady = TRUE
  /\ returned = 0
  /\ pc = [r \in Reqs |-> "start"]
  /\ sel = [r \in Reqs |-> 0]
  /\ sess = [r \in Reqs |-> NewAccount]
  /\ loaded = [r \in Reqs |-> FALSE]
  /\ reported = [a \in Ids |-> 0]
  /\ mode = [r \in Reqs |-> "stream"]
  /\ answer = [r \in Reqs |-> "none"]
  /\ redis = FALSE
  /\ cache = [a \in Ids |-> NULL]
  /\ oai = Content(Null)
  /\ cres = << >>
  /\ events = << >>
  /\ fed = 0
  /\ frames = << >>
  /\ resp = << >>
  /\ style = "reframer"
  /\ apikey = NoKey

Tick(points) ==
  /\ \E t \in points : t > now /\ now' = t
  /\ last' = Op("tick", 0, "-")
  /\ UNCHANGED <<accounts, cursor, steady, returned, reqVars, cacheVars, convVars>>

\* the pool under selections, outcome reports, the administrative switch and
\* the passing of time
Next ==
  \/ TotalCalls(accounts) < MaxPoolCalls /\ GetNextAccount
  \/ \E a \in FaultyIds : ReportFailure(a)
  \/ \E a \in FaultyIds : ReportSuccess(a)
  \/ \E a \in FaultyIds : RecordSuccess(a)
  \/ \E a \in Ids, v \in BOOLEAN : SetActive(a, v)
  \/ Tick(HealthPoints)

Spec == Init /\ [][Next]_vars

\* selections alone, with the administrative switch and the passing of time
NextSelect ==
  \/ TotalCalls(accounts) < MaxCalls /\ GetNextAccount
  \/ \E a \in Ids, v \in BOOLEAN : SetActive(a, v)
  \/ Tick(TimePoints)

SpecSelect == Init /\ [][NextSelect]_vars

\* outcome reports and selections on the full clock
NextHealth ==
  \/ TotalCalls(accounts) < MaxPoolCalls /\ GetNextAccount
  \/ \E a \in FaultyIds : ReportFailure(a)
  \/ \E a \in FaultyIds : ReportSuccess(a)
  \/ Tick(TimePoints)

SpecHealth == Init /\ [][NextHealth]_vars

\* concurrent requests, each suspended between its steps
NextConc ==
  \E r \in Reqs :
    \/ SelectFor(r)
    \/ TokenFails(r)
    \/ TokenOk(r)
    \/ \E st \in UpstreamErrors : UpstreamStatusError(r, st)
    \/ UpstreamRequestError(r)
    \/ UpstreamOk(r)
    \/ StreamFinally(r)

SpecConc == Init /\ [][NextConc]_vars

\* the pool operations alone, selections going on for as long as there is an
\* account to take back and the clock advancing to the horizon; failures are
\* reported while the deadline they may set lies within the horizon
GetNextAccountAgain ==
  /\ \/ TotalCalls(accounts) < MaxPoolCalls
     \/ \E a \in Ids : NeedsRecover(accounts[a], now)
  /\ GetNextAccount

NextRecover ==
  \/ GetNextAccountAgain
  \/ \E a \in FaultyIds : now + RecoverDelay <= MaxTime /\ ReportFailure(a)
  \/ \E a \in FaultyIds : ReportSuccess(a)
  \/ \E a \in FaultyIds : RecordSuccess(a)
  \/ Tick(TimePoints)

SpecRecover ==
  /\ Init
  /\ [][NextRecover]_vars
  /\ WF_vars(Tick(TimePoints))
  /\ WF_vars(GetNextAccountAgain)

\* one API key under its creation, its switch, the calls that validate it,
\* the requests that present it and the passing of time
NextKeys ==
  \/ \E rpm \in KeyLimits, rpd \in KeyLimits, d \in KeyLifetimes : CreateKey(rpm, rpd, d)
  \/ \E v \in BOOLEAN : UpdateKey(v)
  \/ ValidateKey
  \/ \E e \in Endpoints : Authenticate(e)
  \/ Tick(KeyPoints)

SpecKeys == Init /\ [][NextKeys]_vars

\* the token cache under its own operations and the passing of time
NextCache ==
  \/ \E ok \in BOOLEAN : InitRedis(ok)
  \/ \E a \in Ids : GetTokenCache(a)
  \/ \E a \in Ids : DeleteTokenCache(a)
  \/ \E a \in Ids, with_id \in BOOLEAN, ok \in BOOLEAN :
       RefreshTokenForAccount(a, with_id, ok)
  \/ Tick(CachePoints)

SpecCache == Init /\ [][NextCache]_vars

\* the token cache under the background sweep, the administrative switch and
\* the passing of time
NextSweep ==
  \/ \E ok \in BOOLEAN : InitRedis(ok)
  \/ AutoRefreshTokens
  \/ \E a \in Ids, v \in BOOLEAN : SetActive(a, v)
  \/ Tick(SweepPoints)

SpecSweep == Init /\ [][NextSweep]_vars

\* the requests whose answers are followed
OrchReqs == { 1, 2 }

\* requests served by either handler, beside failure reports issued for an
\* account elsewhere (the administrative and the background token refresh)
NextOrch ==
  \/ \E r \in OrchReqs :
       \/ Malformed(r)
       \/ \E m \in Modes : SelectAs(r, m)
       \/ TokenFails(r)
       \/ TokenOk(r)
       \/ \E st \in UpstreamErrors : UpstreamStatusError(r, st)
       \/ UpstreamRequestError(r)
       \/ UpstreamOk(r)
       \/ ClientDisconnect(r)
       \/ StreamFinally(r)
  \/ \E a \in FaultyIds : ReportFailure(a)
  \/ InitRedis(TRUE)

SpecOrch == Init /\ [][NextOrch]_vars

\* the translator applied once to each request and each content of the input sets
InitConv ==
  /\ accounts = [a \in Ids |-> NewAccount]
  /\ cursor = 0
  /\ now = 0
  /\ last = Op("init", 0, "-")
  /\ steady = TRUE
  /\ returned = 0
  /\ pc = [r \in Reqs |-> "start"]
  /\ sel = [r \in Reqs |-> 0]
  /\ sess = [r \in Reqs |-> NewAccount]
  /\ loaded = [r \in Reqs |-> FALSE]
  /\ reported = [a \in Ids |-> 0]
  /\ mode = [r \in Reqs |-> "stream"]
  /\ answer = [r \in Reqs |-> "none"]
  /\ redis = FALSE
  /\ cache = [a \in Ids |-> NULL]
  /\ oai \in Requests \cup { Content(c) : c \in Contents }
  /\ cres = << >>
  /\ events = << >>
  /\ fed = 0
  /\ frames = << >>
  /\ resp = << >>
  /\ style = "reframer"
  /\ apikey = NoKey

NextConv ==
  \/ ConvertRequest
  \/ ConvertContent

SpecConv == InitConv /\ [][NextConv]_vars

\* the response path run on each event sequence of the input set, by the
\* re-framer and by each endpoint
InitFrame ==
  /\ accounts = [a \in Ids |-> NewAccount]
  /\ cursor = 0
  /\ now = 0
  /\ last = Op("init", 0, "-")
  /\ steady = TRUE
  /\ returned = 0
  /\ pc = [r \in Reqs |-> "start"]
  /\ sel = [r \in Reqs |-> 0]
  /\ sess = [r \in Reqs |-> NewAccount]
  /\ loaded = [r \in Reqs |-> FALSE]
  /\ reported = [a \in Ids |-> 0]
  /\ mode = [r \in Reqs |-> "stream"]
  /\ answer = [r \in Reqs |-> "none"]
  /\ redis = FALSE
  /\ cache = [a \in Ids |-> NULL]
  /\ oai = Content(Null)
  /\ cres = << >>
  /\ events \in EventLists
  /\ fed = 0
  /\ frames = << >>
  /\ resp = << >>
  /\ style \in Styles
  /\ apikey = NoKey

NextFrame ==
  \/ StreamEvent
  \/ Aggregate
  \/ ClaudeStreamEvent

SpecFrame == InitFrame /\ [][NextFrame]_vars
====
